---------------------------- MODULE Spec2Model ----------------------------
(***************************************************************************)
(* A model of the PMDSA core: the FITS container reader (FITS/fits.py,     *)
(* FITS/header.py), the linear WCS model (FITS/wcs.py), the sigma clipping *)
(* estimator (stats.py), the photometry engine (star_find/find.py), the    *)
(* astrometric measurer (measure.py) and the batch run (gui.py).           *)
(*                                                                         *)
(* Text is modelled as TLA+ strings, one character per byte of the file.   *)
(* Real numbers are modelled as exact rationals <<numerator, denominator>> *)
(* with a positive denominator and no common factor.                       *)
(***************************************************************************)
EXTENDS Integers, Sequences, FiniteSets, TLC

VARIABLES
    \* ---- FITS reader (FITS/fits.py) ----
    stream,     \* the bytes of the file handed to FITS(file)
    pos,        \* file.tell(): the offset of the next byte read
    closed,     \* whether file.close() has been called
    pc,         \* where FITS.__init__ is: the card loop, validation, data, ...
    header,     \* Header.header: a mapping from key text to value text
    history,    \* FITS.history: the list of history lines
    data,       \* FITS.data: <<>> for None, else <<rows>>
    wcs,        \* FITS.wcs / the WCS object under test: <<>> for None, else <<w>>
    err,        \* the exception that left the constructor, [type, msg]
    reads,      \* how many file.read(80) calls the card loop has made
    dataStart,  \* the offset at which the pixel block was read (-1: not read)
    \* ---- WCS calls (FITS/wcs.py) ----
    ret,        \* the last WCS method call: what was called, with what, the outcome
    \* ---- sigma clipping (stats.py) ----
    clip,       \* one sigma_clip call: its arguments, its mask, where its loop is
    \* ---- photometry (star_find/find.py) ----
    finder,     \* a StarFinder: its window_size, its stars list, its last call
    \* ---- astrometric measurer (measure.py) ----
    meas,       \* a measure object's last call: the two stars, the outcome
    \* ---- batch run (gui.py) ----
    batch       \* StarAnalyzerApp.process_files: files, position, results, errors

fitsVars == <<stream, pos, closed, pc, header, history, data, err, reads, dataStart>>
restVars == <<finder, meas, batch>>
vars == <<stream, pos, closed, pc, header, history, data, wcs, err, reads, dataStart, ret, clip,
          finder, meas, batch>>

-----------------------------------------------------------------------------
(* Small arithmetic helpers *)

Abs(n) == IF n < 0 THEN -n ELSE n

MinOf(S) == CHOOSE m \in S : \A k \in S : m <= k

MaxOf(S) == CHOOSE m \in S : \A k \in S : m >= k

RECURSIVE GCD(_, _)
GCD(a, b) == IF b = 0 THEN a ELSE GCD(b, a % b)

\* math.ceil(a / b) for a >= 0, b > 0
CeilDiv(a, b) == (a + b - 1) \div b

\* The largest k in lo..hi with k * k <= n, by bisection
RECURSIVE SqrtSearch(_, _, _)
SqrtSearch(n, lo, hi) ==
    IF lo >= hi THEN lo
    ELSE LET mid == (lo + hi + 1) \div 2
         IN IF mid * mid <= n THEN SqrtSearch(n, mid, hi) ELSE SqrtSearch(n, lo, mid - 1)

\* The integer square root; 46340 is the largest integer whose square fits
ISqrt(n) == SqrtSearch(n, 0, IF n < 46340 THEN n ELSE 46340)

IsSquare(n) == n >= 0 /\ ISqrt(n) * ISqrt(n) = n

-----------------------------------------------------------------------------
(* Exact rationals standing for Python floats *)

RNorm(n, d) ==
    LET g == GCD(Abs(n), Abs(d))
        s == IF d < 0 THEN -1 ELSE 1
    IN  <<(s * n) \div g, (s * d) \div g>>

RInt(n) == <<n, 1>>

RAdd(a, b) == RNorm(a[1] * b[2] + b[1] * a[2], a[2] * b[2])

RSub(a, b) == RNorm(a[1] * b[2] - b[1] * a[2], a[2] * b[2])

RMul(a, b) == RNorm(a[1] * b[1], a[2] * b[2])

\* a / b for b # 0 (Python raises ZeroDivisionError for b = 0: see the callers)
RDiv(a, b) == RNorm(a[1] * b[2], a[2] * b[1])

RIsZero(a) == a[1] = 0

-----------------------------------------------------------------------------
(* Python str operations used by FITS._read_header *)

\* The characters str.strip() removes that can occur in the modelled files.
Whitespace == {" ", "\t", "\n"}

CharAt(s, i) == SubSeq(s, i, i)

\* s.strip()
Strip(s) ==
    LET keep == {i \in 1..Len(s) : CharAt(s, i) \notin Whitespace}
    IN  IF keep = {} THEN "" ELSE SubSeq(s, MinOf(keep), MaxOf(keep))

\* s.split(c)[0]: the text before the first c, all of s when there is none
BeforeFirst(s, c) ==
    LET at == {i \in 1..Len(s) : CharAt(s, i) = c}
    IN  IF at = {} THEN s ELSE SubSeq(s, 1, MinOf(at) - 1)

\* s.split(c): the list of the parts between the occurrences of c
RECURSIVE Split(_, _)
Split(s, c) ==
    LET at == {i \in 1..Len(s) : CharAt(s, i) = c}
    IN  IF at = {} THEN <<s>>
        ELSE <<SubSeq(s, 1, MinOf(at) - 1)>>
                 \o Split(SubSeq(s, MinOf(at) + 1, Len(s)), c)

\* sub in s
Contains(s, sub) ==
    \E i \in 1..(Len(s) - Len(sub) + 1) : SubSeq(s, i, i + Len(sub) - 1) = sub

Digits == {"0", "1", "2", "3", "4", "5", "6", "7", "8", "9"}

DigitVal(c) ==
    CASE c = "0" -> 0 [] c = "1" -> 1 [] c = "2" -> 2 [] c = "3" -> 3
      [] c = "4" -> 4 [] c = "5" -> 5 [] c = "6" -> 6 [] c = "7" -> 7
      [] c = "8" -> 8 [] c = "9" -> 9

AllDigits(s) == Len(s) > 0 /\ \A i \in 1..Len(s) : CharAt(s, i) \in Digits

RECURSIVE DigitsVal(_)
DigitsVal(s) ==
    IF Len(s) = 0 THEN 0
    ELSE 10 * DigitsVal(SubSeq(s, 1, Len(s) - 1)) + DigitVal(CharAt(s, Len(s)))

HasSign(s) == Len(s) > 0 /\ CharAt(s, 1) \in {"+", "-"}

Unsigned(s) == IF HasSign(s) THEN SubSeq(s, 2, Len(s)) ELSE s

SignOf(s) == IF HasSign(s) /\ CharAt(s, 1) = "-" THEN -1 ELSE 1

\* Whether int(s) succeeds: optional blanks, an optional sign, decimal digits.
IntOk(s) == AllDigits(Unsigned(Strip(s)))

\* int(s), where IntOk(s)
IntVal(s) == SignOf(Strip(s)) * DigitsVal(Unsigned(Strip(s)))

\* Whether float(s) succeeds, for the plain decimal texts of the modelled
\* headers: optional blanks, an optional sign, digits, an optional fraction.
FloatOk(s) ==
    LET parts == Split(Unsigned(Strip(s)), ".")
    IN  \/ Len(parts) = 1 /\ AllDigits(parts[1])
        \/ /\ Len(parts) = 2
           /\ Len(parts[1]) + Len(parts[2]) > 0
           /\ \A k \in 1..2 : Len(parts[k]) = 0 \/ AllDigits(parts[k])

RECURSIVE Pow10(_)
Pow10(k) == IF k = 0 THEN 1 ELSE 10 * Pow10(k - 1)

\* float(s), where FloatOk(s)
FloatVal(s) ==
    LET parts == Split(Unsigned(Strip(s)), ".")
        frac  == IF Len(parts) = 2 THEN parts[2] ELSE ""
    IN  RNorm(SignOf(Strip(s)) * (DigitsVal(parts[1]) * Pow10(Len(frac)) + DigitsVal(frac)),
              Pow10(Len(frac)))

-----------------------------------------------------------------------------
(* The WCS model: FITS/wcs.py *)

\* math.cos(math.radians(90.0)) is 6.123233995736766e-17, not 0: the float nearest
\* to pi/2 is not pi/2. It is modelled as 1 / InvCos90; the true reciprocal
\* (about 1.6e16) does not fit TLC's integers, and no verdict depends on its size.
InvCos90 == 1000000

Cos90 == <<1, InvCos90>>

\* Whether hypot(x, y) is rational, so that the model can compute with it.
HypotOk(x, y) ==
    LET q == RAdd(RMul(x, x), RMul(y, y))
    IN  IsSquare(q[1]) /\ IsSquare(q[2])

Hypot(x, y) ==
    LET q == RAdd(RMul(x, x), RMul(y, y))
    IN  <<ISqrt(q[1]), ISqrt(q[2])>>

\* degrees(atan2(y, x)): the angle is kept as its exact sine and cosine.
\* atan2(0, 0) is 0.
Atan2Deg(y, x) ==
    IF RIsZero(x) /\ RIsZero(y) THEN [s |-> RInt(0), c |-> RInt(1)]
    ELSE [s |-> RDiv(y, Hypot(x, y)), c |-> RDiv(x, Hypot(x, y))]

\* cos(radians(a)): exact, but for the right angles, where the float result is
\* the small positive Cos90 (cos(radians(-90.0)) is the same number).
CosDeg(a) == IF RIsZero(a.c) THEN Cos90 ELSE a.c

\* WCS.sky_angle: the value it stores in CROTA2 and returns
sky_angle(w) == Atan2Deg(w.CD2_1, w.CD1_1)

\* WCS.sky_scale: the values it stores in CDELT1, CDELT2 and returns
sky_scale(w) ==
    <<RDiv(w.CD1_1, CosDeg(w.CROTA2)), RDiv(w.CD2_2, CosDeg(w.CROTA2))>>

\* WCS.__init__, given the ten header values already converted by float()
WCSNew(v) ==
    LET w0 == [CD1_1 |-> v.CD1_1, CD1_2 |-> v.CD1_2,
               CD2_1 |-> v.CD2_1, CD2_2 |-> v.CD2_2,
               CTYPE1 |-> v.CTYPE1, CTYPE2 |-> v.CTYPE2,
               CRPIX1 |-> v.CRPIX1, CRPIX2 |-> v.CRPIX2,
               CRVAL1 |-> v.CRVAL1, CRVAL2 |-> v.CRVAL2,
               CROTA2 |-> sky_angle(v),
               CDELT1 |-> RInt(0), CDELT2 |-> RInt(0)]
    IN  [w0 EXCEPT !.CDELT1 = sky_scale(w0)[1], !.CDELT2 = sky_scale(w0)[2]]

\* The outcome of a call: the exception type ("" when it returned) and the value.
Returned(v) == [err |-> "", out |-> v]

Raised(e) == [err |-> e, out |-> <<>>]

\* WCS.world_to_pixel: Python float division raises ZeroDivisionError on a zero
\* divisor; pix_x is computed before pix_y.
world_to_pixel(w, RA, Dec) ==
    IF RIsZero(w.CDELT1) \/ RIsZero(w.CDELT2) THEN Raised("ZeroDivisionError")
    ELSE Returned(<<RAdd(RDiv(RSub(RA, w.CRVAL1), w.CDELT1), w.CRPIX1),
                    RAdd(RDiv(RSub(Dec, w.CRVAL2), w.CDELT2), w.CRPIX2)>>)

\* WCS.pixel_to_world
pixel_to_world(w, Pixel_x, Pixel_y) ==
    Returned(<<RAdd(RMul(RSub(Pixel_x, w.CRPIX1), w.CDELT1), w.CRVAL1),
               RAdd(RMul(RSub(Pixel_y, w.CRPIX2), w.CDELT2), w.CRVAL2)>>)

-----------------------------------------------------------------------------
(* Exceptions *)

NoError == [type |-> "", msg |-> ""]

\* str(KeyError(k)) names the key
KeyError(k) == [type |-> "KeyError", msg |-> k]

AssertionError(m) == [type |-> "AssertionError", msg |-> m]

ValueError(m) == [type |-> "ValueError", msg |-> m]

UnicodeDecodeError == [type |-> "UnicodeDecodeError", msg |-> "invalid start byte"]

\* The first exception of a list of checks done in order
RECURSIVE FirstError(_)
FirstError(es) ==
    IF Len(es) = 0 THEN NoError
    ELSE IF es[1] # NoError THEN es[1] ELSE FirstError(Tail(es))

\* header[k] followed by int(...): KeyError, then ValueError
IntField(h, k) ==
    IF k \notin DOMAIN h THEN KeyError(k)
    ELSE IF ~IntOk(h[k])
         THEN ValueError("invalid literal for int() with base 10: '" \o h[k] \o "'")
         ELSE NoError

\* header[k] followed by float(...)
FloatField(h, k) ==
    IF k \notin DOMAIN h THEN KeyError(k)
    ELSE IF ~FloatOk(h[k])
         THEN ValueError("could not convert string to float: '" \o h[k] \o "'")
         ELSE NoError

\* header[k]
StrField(h, k) == IF k \notin DOMAIN h THEN KeyError(k) ELSE NoError

\* An assert over int(header[k]), reached only when the conversion succeeded
AssertInt(h, k, allowed, m) ==
    IF IntField(h, k) # NoError THEN IntField(h, k)
    ELSE IF IntVal(h[k]) \in allowed THEN NoError ELSE AssertionError(m)

-----------------------------------------------------------------------------
(* The files the reader is run on *)

\* A header card is 80 bytes; the data starts on a 2880-byte boundary.
CardLen == 80

BlockLen == 2880

\* How many optional cards a modelled header holds before its END card.
MaxExtra == 1

\* The card loop is followed for at most this many reads (the longest modelled
\* file that holds an END card needs 40).
MaxReads == 44

\* A byte that is not valid UTF-8 (0x80 and up); TLA+ strings are ASCII, so one
\* ASCII character stands for it.
NonUtf8 == "~"

RECURSIVE Repeat(_, _)
Repeat(s, k) == IF k <= 0 THEN "" ELSE s \o Repeat(s, k - 1)

Card(text) == text \o Repeat(" ", CardLen - Len(text))

RECURSIVE Concat(_)
Concat(ss) == IF Len(ss) = 0 THEN "" ELSE ss[1] \o Concat(Tail(ss))

KeyCard(k, v) == Card(k \o Repeat(" ", 8 - Len(k)) \o "= " \o v)

RequiredKeys == <<"SIMPLE", "BITPIX", "NAXIS", "NAXIS1", "NAXIS2">>

WCSKeys == <<"CD1_1", "CD1_2", "CD2_1", "CD2_2", "CTYPE1", "CTYPE2",
             "CRPIX1", "CRPIX2", "CRVAL1", "CRVAL2">>

AllKeys == RequiredKeys \o WCSKeys

Range(f) == {f[i] : i \in DOMAIN f}

\* The value text a well-formed file gives each key
GoodValue(k) ==
    CASE k = "SIMPLE" -> "T" [] k = "BITPIX" -> "16" [] k = "NAXIS" -> "2"
      [] k = "NAXIS1" -> "2" [] k = "NAXIS2" -> "2"
      [] k = "CD1_1" -> "3" [] k = "CD1_2" -> "-4"
      [] k = "CD2_1" -> "4" [] k = "CD2_2" -> "3"
      [] k = "CTYPE1" -> "'RA---TAN'" [] k = "CTYPE2" -> "'DEC--TAN'"
      [] k = "CRPIX1" -> "1.5" [] k = "CRPIX2" -> "1"
      [] k = "CRVAL1" -> "180" [] k = "CRVAL2" -> "-30"

\* Other value texts a file may give a key
BadValues(k) ==
    CASE k = "SIMPLE" -> {"F"}
      [] k = "BITPIX" -> {"8", "12", "abc"}
      [] k = "NAXIS" -> {"3"}
      [] k = "NAXIS1" -> {"0"}
      [] k = "NAXIS2" -> {"2.0"}
      [] k = "CD1_1" -> {"x"}
      [] OTHER -> {}

\* The optional cards: free text, history lines, and values that hold the
\* characters the parser splits on.
ExtraCards ==
    { Card("HISTORY reduced 01/02/03 by pipeline"),
      Card("HISTORY gain=2"),
      Card("HISTORY flat fielded"),
      Card("COMMENT no key here"),
      KeyCard("DATE", "'01/02/03'"),
      KeyCard("EXPR", "'a=b' / an expression"),
      KeyCard("EXPTIME", "30 / t=30s") }

ExtraSeqs == UNION {[1..n -> ExtraCards] : n \in 0..MaxExtra}

\* What a modelled file is built from: the keys it holds and their values, the
\* optional cards, the filler before END, how the header ends, what follows the
\* END card, the BSCALE/BZERO cards and the pixel bytes.
DefaultFile ==
    [omit |-> "", key |-> "", value |-> "", filler |-> 0, ending |-> "END",
     tail |-> "PAD", scale |-> "none", pixels |-> "FULL"]

FileShapes ==
    {DefaultFile}
      \cup {[DefaultFile EXCEPT !.omit = k] : k \in Range(AllKeys)}
      \cup UNION {{[DefaultFile EXCEPT !.key = k, !.value = v] : v \in BadValues(k)}
                      : k \in Range(AllKeys)}
      \cup {[DefaultFile EXCEPT !.filler = n] : n \in {20, 21}}
      \cup {[DefaultFile EXCEPT !.ending = e] : e \in {"NONE", "CUT", "BADBYTE"}}
      \cup {[DefaultFile EXCEPT !.tail = t] : t \in {"CARD", "NOPAD"}}
      \cup {[DefaultFile EXCEPT !.scale = c] : c \in {"both", "bscale", "float"}}
      \cup {[DefaultFile EXCEPT !.pixels = "SHORT"]}

\* The shapes that are also built with optional cards
ShapesWithExtras ==
    {DefaultFile, [DefaultFile EXCEPT !.tail = "CARD"], [DefaultFile EXCEPT !.ending = "NONE"],
     [DefaultFile EXCEPT !.omit = "NAXIS2"], [DefaultFile EXCEPT !.filler = 20]}

ValueOf(f, k) == IF f.key = k THEN f.value ELSE GoodValue(k)

KeyCards(f) ==
    Concat([i \in 1..Len(AllKeys) |->
               IF AllKeys[i] = f.omit THEN ""
               ELSE KeyCard(AllKeys[i], ValueOf(f, AllKeys[i]))])

ScaleCards(f) ==
    CASE f.scale = "none" -> ""
      [] f.scale = "both" -> KeyCard("BSCALE", "2") \o KeyCard("BZERO", "1 / offset")
      [] f.scale = "bscale" -> KeyCard("BSCALE", "2")
      [] f.scale = "float" -> KeyCard("BSCALE", "1.0") \o KeyCard("BZERO", "32768.0")

EndingOf(f) ==
    CASE f.ending = "END" -> Card("END")
      [] f.ending = "CUT" -> "END"
      [] f.ending = "NONE" -> ""
      [] f.ending = "BADBYTE" -> Card("OBSERVER= " \o NonUtf8) \o Card("END")

\* The bytes after the END card up to the block boundary: blank, or holding a
\* card that looks like a key (which is not to be parsed).
TailOf(f, headLen) ==
    LET n == (CeilDiv(headLen, BlockLen) * BlockLen - headLen) \div CardLen
    IN  CASE f.ending = "CUT" -> ""
          [] f.tail = "NOPAD" -> ""
          [] f.tail = "PAD" -> Repeat(Card(""), n)
          [] f.tail = "CARD" ->
               IF n < 2 THEN Repeat(Card(""), n)
               ELSE KeyCard("NAXIS1", "9") \o Card("HISTORY after END")
                        \o Repeat(Card(""), n - 2)

PixelBytes == "ABCDEFGHIJKLMNOP"

PixelsOf(f) ==
    CASE f.ending = "CUT" -> ""
      [] f.pixels = "FULL" -> SubSeq(PixelBytes, 1, 8)
      [] f.pixels = "SHORT" -> SubSeq(PixelBytes, 1, 7)

FileBytes(f, extra) ==
    LET head == KeyCards(f) \o ScaleCards(f) \o Concat(extra)
                    \o Repeat(Card("COMMENT filler"), f.filler) \o EndingOf(f)
    IN  head \o TailOf(f, Len(head)) \o PixelsOf(f)

-----------------------------------------------------------------------------
(* The reader: FITS/fits.py, FITS/header.py *)

\* Header.__setitem__: self.header.update({key: value})
HeaderSet(h, k, v) == [x \in DOMAIN h \cup {k} |-> IF x = k THEN v ELSE h[x]]

\* Header.__init__: self.header = {}
EmptyHeader == [x \in {} |-> ""]

\* file.read(n) at offset p: the bytes left, at most n of them
FileRead(s, p, n) ==
    IF p >= Len(s) THEN "" ELSE SubSeq(s, p + 1, IF p + n <= Len(s) THEN p + n ELSE Len(s))

\* FITS.ensure_header_value
ensure_header_value(h, k) == k \in DOMAIN h

\* key, value = line.split("="): whether the unpacking succeeds
SplitsInTwo(line) == Len(Split(line, "=")) = 2

\* line = line.split("/")[0]
WithoutComment(raw) == BeforeFirst(raw, "/")

\* What the except branch appends to the history
HistoryLine(raw) == WithoutComment(raw)

\* The asserts that follow the card loop, in order, up to WCS(header)
RequiredError(h) ==
    FirstError(<<
        IF "SIMPLE" \notin DOMAIN h THEN KeyError("SIMPLE")
        ELSE IF h["SIMPLE"] # "T" THEN AssertionError("Not a FITS file") ELSE NoError,
        AssertInt(h, "BITPIX", {8, 16, 32, 64}, "Unsupported BITPIX value"),
        AssertInt(h, "NAXIS", {2}, "Only 2D images supported"),
        AssertInt(h, "NAXIS1", Nat \ {0}, "Invalid image dimensions"),
        IF IntField(h, "NAXIS1") = NoError /\ IntVal(h["NAXIS1"]) > 0
        THEN AssertInt(h, "NAXIS2", Nat \ {0}, "Invalid image dimensions")
        ELSE NoError >>)

\* WCS.__init__ on the header: the first header[...] or float(...) that raises
WCSError(h) ==
    FirstError([i \in 1..Len(WCSKeys) |->
                   IF WCSKeys[i] \in {"CTYPE1", "CTYPE2"} THEN StrField(h, WCSKeys[i])
                   ELSE FloatField(h, WCSKeys[i])])

WCSOfHeader(h) ==
    WCSNew([CD1_1 |-> FloatVal(h["CD1_1"]), CD1_2 |-> FloatVal(h["CD1_2"]),
            CD2_1 |-> FloatVal(h["CD2_1"]), CD2_2 |-> FloatVal(h["CD2_2"]),
            CTYPE1 |-> h["CTYPE1"], CTYPE2 |-> h["CTYPE2"],
            CRPIX1 |-> FloatVal(h["CRPIX1"]), CRPIX2 |-> FloatVal(h["CRPIX2"]),
            CRVAL1 |-> FloatVal(h["CRVAL1"]), CRVAL2 |-> FloatVal(h["CRVAL2"])])

\* The byte values of the characters the modelled pixel blocks are made of
Ord(c) ==
    CASE c = "A" -> 65 [] c = "B" -> 66 [] c = "C" -> 67 [] c = "D" -> 68
      [] c = "E" -> 69 [] c = "F" -> 70 [] c = "G" -> 71 [] c = "H" -> 72
      [] c = " " -> 32

\* One big-endian unsigned sample
RECURSIVE BigEndian(_)
BigEndian(b) ==
    IF Len(b) = 0 THEN 0
    ELSE 256 * BigEndian(SubSeq(b, 1, Len(b) - 1)) + Ord(CharAt(b, Len(b)))

\* FITS._binary_to_array: np.frombuffer raises ValueError unless the buffer is a
\* whole number of samples, reshape unless there are NAXIS2 * NAXIS1 of them.
ArrayOk(b, bpix, NAXIS1, NAXIS2) ==
    Len(b) % bpix = 0 /\ Len(b) \div bpix = NAXIS1 * NAXIS2

binary_to_array(b, bpix, NAXIS1, NAXIS2) ==
    [r \in 1..NAXIS2 |->
        [c \in 1..NAXIS1 |->
            BigEndian(SubSeq(b, ((r - 1) * NAXIS1 + c - 1) * bpix + 1,
                                ((r - 1) * NAXIS1 + c) * bpix))]]

\* The start of the block after the one that holds place, even when place
\* is itself a block boundary
BlockEndNext(place) == (place \div BlockLen + 1) * BlockLen

\* The offset _read_data seeks to: ceil(place / 2880) * 2880
BlockEnd(place) == CeilDiv(place, BlockLen) * BlockLen

\* One pass of the card loop of _read_header
ReadCard ==
    /\ pc = "read_header"
    /\ reads < MaxReads
    /\ LET raw == FileRead(stream, pos, CardLen)
           line == WithoutComment(raw)
       IN  /\ pos' = pos + Len(raw)
           /\ reads' = reads + 1
           /\ IF Contains(raw, NonUtf8)
              THEN pc' = "failed" /\ err' = UnicodeDecodeError
                   /\ UNCHANGED <<header, history>>
              ELSE IF Strip(raw) = "END"
              THEN pc' = "validate" /\ UNCHANGED <<err, header, history>>
              ELSE /\ UNCHANGED <<pc, err>>
                   /\ IF SplitsInTwo(line)
                      THEN /\ header' = HeaderSet(header, Strip(Split(line, "=")[1]),
                                                  Strip(Split(line, "=")[2]))
                           /\ UNCHANGED history
                      ELSE /\ history' = IF Contains(line, "HISTORY")
                                         THEN Append(history, HistoryLine(raw))
                                         ELSE history
                           /\ UNCHANGED header
    /\ UNCHANGED <<stream, closed, data, wcs, dataStart, ret, clip, restVars>>

\* The end of _read_header as it would be without self.wcs = wcs.WCS(...)
ValidateWithoutWCS ==
    /\ pc = "validate"
    /\ LET e == RequiredError(header)
       IN  IF e # NoError
           THEN pc' = "failed" /\ err' = e
           ELSE pc' = "read_data" /\ UNCHANGED err
    /\ UNCHANGED <<stream, pos, closed, header, history, data, wcs, reads, dataStart, ret, clip, restVars>>

\* The end of _read_header: the asserts and self.wcs = wcs.WCS(self.header)
Validate ==
    /\ pc = "validate"
    /\ LET e == FirstError(<<RequiredError(header), WCSError(header)>>)
       IN  IF e # NoError
           THEN pc' = "failed" /\ err' = e /\ UNCHANGED wcs
           ELSE pc' = "read_data" /\ wcs' = <<WCSOfHeader(header)>> /\ UNCHANGED err
    /\ UNCHANGED <<stream, pos, closed, header, history, data, reads, dataStart, ret, clip, restVars>>

\* _read_data: seek to the block boundary, read the samples, convert, rescale
ReadData ==
    /\ pc = "read_data"
    /\ LET bytepix == IntVal(header["BITPIX"]) \div 8
           width == IntVal(header["NAXIS1"])
           height == IntVal(header["NAXIS2"])
           blockEnd == BlockEnd(pos)
           bytes == FileRead(stream, blockEnd, bytepix * width * height)
           scaled == ensure_header_value(header, "BSCALE")
                       /\ ensure_header_value(header, "BZERO")
           e == IF ~ArrayOk(bytes, bytepix, width, height)
                THEN ValueError("cannot reshape array")
                ELSE IF scaled
                THEN FirstError(<<IntField(header, "BSCALE"), IntField(header, "BZERO")>>)
                ELSE NoError
           raw == binary_to_array(bytes, bytepix, width, height)
       IN  /\ pos' = blockEnd + Len(bytes)
           /\ dataStart' = blockEnd
           /\ IF e # NoError
              THEN pc' = "failed" /\ err' = e /\ UNCHANGED data
              ELSE /\ pc' = "done"
                   /\ UNCHANGED err
                   /\ data' = IF scaled
                              THEN <<[r \in 1..height |-> [c \in 1..width |->
                                       raw[r][c] * IntVal(header["BSCALE"])
                                           + IntVal(header["BZERO"])]]>>
                              ELSE <<raw>>
    /\ UNCHANGED <<stream, closed, header, history, wcs, reads, ret, clip, restVars>>

\* FITS.__del__, when the object is collected after the constructor has returned
\* or raised: self.file.close()
Del ==
    /\ pc \in {"done", "failed"}
    /\ ~closed
    /\ closed' = TRUE
    /\ UNCHANGED <<stream, pos, pc, header, history, data, wcs, err, reads, dataStart, ret, clip, restVars>>

\* No sigma_clip call is under way
NoClip == [pc |-> "idle"]

\* No StarFinder, no measure object and no batch run exist
NoFinder == [pc |-> "idle"]

NoMeasure == [op |-> ""]

NoBatch == [pc |-> "idle"]

NoCall == [op |-> "", args |-> <<>>, err |-> "", out |-> <<>>, before |-> <<>>]

\* FITS.__init__ up to the call of _read_header, on each modelled file
InitFITS ==
    /\ \E f \in FileShapes :
          \E extra \in (IF f \in ShapesWithExtras THEN ExtraSeqs ELSE {<<>>}) :
             stream = FileBytes(f, extra)
    /\ pos = 0
    /\ closed = FALSE
    /\ pc = "read_header"
    /\ header = EmptyHeader
    /\ history = <<>>
    /\ data = <<>>
    /\ wcs = <<>>
    /\ err = NoError
    /\ reads = 0
    /\ dataStart = -1
    /\ ret = NoCall
    /\ clip = NoClip
    /\ finder = NoFinder /\ meas = NoMeasure /\ batch = NoBatch

NextFITS == ReadCard \/ Validate \/ ReadData \/ Del

SpecFITS == InitFITS /\ [][NextFITS]_vars

-----------------------------------------------------------------------------
(* What the claims about the reader speak of, read off the file itself *)

\* The i-th 80-byte card of a file (the last one may be shorter)
Chunk(s, i) == FileRead(s, (i - 1) * CardLen, CardLen)

NumChunks(s) == CeilDiv(Len(s), CardLen)

\* The cards whose trimmed content is exactly END
EndCards(s) == {i \in 1..NumChunks(s) : Strip(Chunk(s, i)) = "END"}

\* The index of the first END card, 0 when the file holds none
FirstEndCard(s) == IF EndCards(s) = {} THEN 0 ELSE MinOf(EndCards(s))

\* The stream offset just after the first END card
EndOffset(s) ==
    IF FirstEndCard(s) * CardLen <= Len(s) THEN FirstEndCard(s) * CardLen ELSE Len(s)

\* The card loop was left through an END card
EndFound ==
    \/ pc \in {"validate", "read_data", "done"}
    \/ pc = "failed" /\ err.type # "UnicodeDecodeError"

\* A card in the fixed format of the standard: the key in bytes 1-8, "= " in
\* bytes 9-10, then the value, which is a quoted string or runs to the comment.
IsKeyValueCard(c) == Len(c) = CardLen /\ SubSeq(c, 9, 10) = "= "

CardKey(c) == Strip(SubSeq(c, 1, 8))

CardValue(c) ==
    LET v == Strip(SubSeq(c, 11, CardLen))
        quotes == {i \in 2..Len(v) : CharAt(v, i) = "'"}
    IN  IF Len(v) > 0 /\ CharAt(v, 1) = "'" /\ quotes # {}
        THEN SubSeq(v, 1, MinOf(quotes))
        ELSE Strip(BeforeFirst(v, "/"))

\* C1: _read_header terminates on every finite stream: the card loop ends (an END
\* card is found or an error is raised) no later than the first read that returns
\* no bytes, so it never makes more reads than the stream has cards, plus one.
C1_ReadHeaderTerminates == reads <= NumChunks(stream) + 1

\* C2: parsing stops at the first END card: the loop makes exactly as many reads
\* as there are cards up to it, every header entry and history line comes from a
\* card before it, and the pixel block is read at the smallest multiple of 2880
\* that is >= the offset just after the END card.
C2_StopsAtEndAndAlignsData ==
    EndFound =>
        LET first == FirstEndCard(stream)
            after == EndOffset(stream)
        IN  /\ reads = first
            /\ pos >= after
            /\ \A k \in DOMAIN header :
                  \E i \in 1..(first - 1) :
                     /\ Strip(BeforeFirst(Chunk(stream, i), "=")) = k
                     /\ Contains(Chunk(stream, i), header[k])
            /\ \A j \in DOMAIN history :
                  \E i \in 1..(first - 1) :
                     SubSeq(Chunk(stream, i), 1, Len(history[j])) = history[j]
            /\ dataStart # -1 =>
                  /\ dataStart % BlockLen = 0
                  /\ dataStart >= after
                  /\ dataStart - after < BlockLen

\* A load that skipped padding holding key-like and history-like cards
C2_Witness ==
    /\ pc = "done"
    /\ FirstEndCard(stream) < NumChunks(stream) - 2
    /\ EndOffset(stream) < dataStart
    /\ \E i \in (FirstEndCard(stream) + 1)..NumChunks(stream) :
          IsKeyValueCard(Chunk(stream, i)) /\ CardKey(Chunk(stream, i)) = "NAXIS1"
             /\ header["NAXIS1"] # CardValue(Chunk(stream, i))

\* C3: when, after the END card, a required key is missing or invalid, loading
\* fails with a FormatError naming a missing or invalid key, and no pixel data
\* is read.
RequiredKeyBad(h, k) ==
    \/ k \notin DOMAIN h
    \/ k = "SIMPLE" /\ h[k] # "T"
    \/ k # "SIMPLE" /\ ~IntOk(h[k])
    \/ k = "BITPIX" /\ IntOk(h[k]) /\ IntVal(h[k]) \notin {8, 16, 32, 64}
    \/ k = "NAXIS" /\ IntOk(h[k]) /\ IntVal(h[k]) # 2
    \/ k \in {"NAXIS1", "NAXIS2"} /\ IntOk(h[k]) /\ IntVal(h[k]) <= 0

C3_FormatErrorNamesKey ==
    (EndFound /\ pc # "validate" /\ \E k \in Range(RequiredKeys) : RequiredKeyBad(header, k))
        => /\ pc = "failed"
           /\ err.type = "FormatError"
           /\ \E k \in Range(RequiredKeys) : RequiredKeyBad(header, k) /\ Contains(err.msg, k)
           /\ data = <<>> /\ dataStart = -1

\* C4: every card before END of the form KEY = VALUE [/ COMMENT] results in
\* header[KEY] = VALUE, whatever the value text.
C4_EveryKeyValueCardStored ==
    EndFound =>
        \A i \in 1..(FirstEndCard(stream) - 1) :
            IsKeyValueCard(Chunk(stream, i)) =>
                /\ CardKey(Chunk(stream, i)) \in DOMAIN header
                /\ header[CardKey(Chunk(stream, i))] = CardValue(Chunk(stream, i))

\* C5: the history holds, verbatim and in stream order, the full text of cards
\* read from the stream.
C5_HistoryVerbatim ==
    /\ \A j \in DOMAIN history : \E i \in 1..reads : history[j] = Chunk(stream, i)
    /\ \A j, k \in DOMAIN history :
          j < k => \E i, l \in 1..reads :
                      i < l /\ history[j] = Chunk(stream, i) /\ history[k] = Chunk(stream, l)

-----------------------------------------------------------------------------
(* Calls on a WCS object: FITS/wcs.py *)

\* The entries of the CD matrices, and the reference points, of the modelled
\* WCS objects; CD1_1 and CD2_1 are chosen with a rational hypot.
CDValues == {-3, 0, 3, 4}

RefPoints ==
    {[CRPIX1 |-> 0, CRPIX2 |-> 0, CRVAL1 |-> 0, CRVAL2 |-> 0],
     [CRPIX1 |-> 1, CRPIX2 |-> 2, CRVAL1 |-> 180, CRVAL2 |-> -30]}

WorldValues == {0, 1, 180}

PixelValues == {0, 1, 36}

\* The header dict given to WCS(header); float() of a number is that number
WCSHeaders ==
    {[CD1_1 |-> RInt(a), CD1_2 |-> RInt(b), CD2_1 |-> RInt(c), CD2_2 |-> RInt(d),
      CTYPE1 |-> "RA---TAN", CTYPE2 |-> "DEC--TAN",
      CRPIX1 |-> RInt(r.CRPIX1), CRPIX2 |-> RInt(r.CRPIX2),
      CRVAL1 |-> RInt(r.CRVAL1), CRVAL2 |-> RInt(r.CRVAL2)] :
        a \in CDValues, b \in CDValues, c \in CDValues, d \in CDValues, r \in RefPoints}

Call(op, args, result, w) ==
    [op |-> op, args |-> args, err |-> result.err, out |-> result.out, before |-> w]

\* wcs.world_to_pixel(RA, Dec)
CallWorldToPixel ==
    /\ pc = "wcs"
    /\ \E RA \in WorldValues, Dec \in WorldValues :
          ret' = Call("world_to_pixel", <<RInt(RA), RInt(Dec)>>,
                      world_to_pixel(wcs[1], RInt(RA), RInt(Dec)), wcs)
    /\ UNCHANGED <<wcs, fitsVars, clip, restVars>>

\* wcs.pixel_to_world(x, y)
CallPixelToWorld ==
    /\ pc = "wcs"
    /\ \E x \in PixelValues, y \in PixelValues :
          ret' = Call("pixel_to_world", <<RInt(x), RInt(y)>>,
                      pixel_to_world(wcs[1], RInt(x), RInt(y)), wcs)
    /\ UNCHANGED <<wcs, fitsVars, clip, restVars>>

\* wcs.pixel_to_world(*wcs.world_to_pixel(RA, Dec)), the second half: the pixel
\* is the one the last world_to_pixel call returned
CallPixelToWorldOfResult ==
    /\ pc = "wcs"
    /\ ret.op = "world_to_pixel" /\ ret.err = ""
    /\ ret' = Call("round_trip", ret.args,
                   pixel_to_world(wcs[1], ret.out[1], ret.out[2]), wcs)
    /\ UNCHANGED <<wcs, fitsVars, clip, restVars>>

\* wcs.sky_angle(): sets CROTA2 and returns it
CallSkyAngle ==
    /\ pc = "wcs"
    /\ wcs' = <<[wcs[1] EXCEPT !.CROTA2 = sky_angle(wcs[1])]>>
    /\ ret' = Call("sky_angle", <<>>, Returned(sky_angle(wcs[1])), wcs)
    /\ UNCHANGED <<fitsVars, clip, restVars>>

\* wcs.sky_scale(): sets CDELT1 and CDELT2 and returns them
CallSkyScale ==
    /\ pc = "wcs"
    /\ wcs' = <<[wcs[1] EXCEPT !.CDELT1 = sky_scale(wcs[1])[1],
                               !.CDELT2 = sky_scale(wcs[1])[2]]>>
    /\ ret' = Call("sky_scale", <<>>, Returned(sky_scale(wcs[1])), wcs)
    /\ UNCHANGED <<fitsVars, clip, restVars>>

\* WCS(header) on each modelled header
InitWCS ==
    /\ \E h \in WCSHeaders : HypotOk(h.CD1_1, h.CD2_1) /\ wcs = <<WCSNew(h)>>
    /\ ret = NoCall
    /\ pc = "wcs"
    /\ stream = "" /\ pos = 0 /\ closed = FALSE
    /\ header = EmptyHeader /\ history = <<>> /\ data = <<>>
    /\ err = NoError /\ reads = 0 /\ dataStart = -1
    /\ clip = NoClip
    /\ finder = NoFinder /\ meas = NoMeasure /\ batch = NoBatch

NextWCS ==
    \/ CallWorldToPixel
    \/ CallPixelToWorld
    \/ CallPixelToWorldOfResult
    \/ CallSkyAngle
    \/ CallSkyScale

SpecWCS == InitWCS /\ [][NextWCS]_vars

\* The determinant of the CD matrix
Det(w) == RSub(RMul(w.CD1_1, w.CD2_2), RMul(w.CD1_2, w.CD2_1))

\* The general linear form: CRVAL + CD * (pixel - CRPIX)
LinearForm(w, x, y) ==
    <<RAdd(w.CRVAL1, RAdd(RMul(w.CD1_1, RSub(x, w.CRPIX1)), RMul(w.CD1_2, RSub(y, w.CRPIX2)))),
      RAdd(w.CRVAL2, RAdd(RMul(w.CD2_1, RSub(x, w.CRPIX1)), RMul(w.CD2_2, RSub(y, w.CRPIX2))))>>

\* C7: with a non-singular CD matrix, world_to_pixel returns a pixel for every
\* (ra, dec), and pixel_to_world of that pixel is (ra, dec) again.
C7_RoundTrip ==
    ~RIsZero(Det(wcs[1])) =>
        /\ ret.op = "world_to_pixel" => ret.err = ""
        /\ ret.op = "round_trip" => ret.err = "" /\ ret.out = ret.args

\* C8: world_to_pixel fails with SingularTransformError exactly when the CD
\* matrix has determinant 0, and the call leaves the WCS object as it was.
C8_SingularExactlyWhenDetZero ==
    ret.op = "world_to_pixel" =>
        /\ ret.err = "SingularTransformError" <=> RIsZero(Det(wcs[1]))
        /\ ret.err \in {"", "SingularTransformError"}
        /\ wcs = ret.before

\* C9: pixel_to_world(x, y) is the general linear form, for every CD matrix.
C9_PixelToWorldIsLinearForm ==
    ret.op = "pixel_to_world" =>
        ret.out = LinearForm(wcs[1], ret.args[1], ret.args[2])

(***************************************************************************)
(* Sigma clipping (stats.py).                                              *)
(*                                                                         *)
(* A sample is a finite number, NaN or +infinity.  Finite samples are      *)
(* small integers, sigma is a non-negative rational <<p, q>>, and the test *)
(*     |x - med| > sigma * std                                             *)
(* is decided exactly by comparing the squares of its two sides.  A        *)
(* standard deviation over a set holding a non-finite sample is NaN, and   *)
(* every comparison with NaN is false.                                     *)
(***************************************************************************)

MaxSamples == 4
MaxIters == 2

Fin(n) == [k |-> "fin", v |-> n]
NaN == [k |-> "nan", v |-> 0]
Inf == [k |-> "inf", v |-> 0]

SampleValues == {0, 1, 10}
Samples == {Fin(n) : n \in SampleValues} \cup {NaN, Inf}
Sigmas == {<<0, 1>>, <<1, 2>>, <<1, 1>>, <<2, 1>>}

\* All arrays of at most n samples
RECURSIVE Arrays(_)
Arrays(n) ==
    IF n = 0 THEN {<<>>}
    ELSE LET shorter == Arrays(n - 1)
         IN shorter \cup {Append(a, x) : a \in {b \in shorter : Len(b) = n - 1}, x \in Samples}

\* np.isnan(data)
isnan(a) == [i \in DOMAIN a |-> a[i].k = "nan"]

\* The positions of data[~mask]
Unmasked(a, mask) == {i \in DOMAIN a : ~mask[i]}

\* The sum of the samples at idx
RECURSIVE Sum(_, _)
Sum(a, idx) ==
    IF idx = {} THEN 0
    ELSE LET i == CHOOSE j \in idx : TRUE
         IN a[i].v + Sum(a, idx \ {i})

\* The sum of the squares of the samples at idx
RECURSIVE SumSq(_, _)
SumSq(a, idx) ==
    IF idx = {} THEN 0
    ELSE LET i == CHOOSE j \in idx : TRUE
         IN a[i].v * a[i].v + SumSq(a, idx \ {i})

\* The k-th smallest of the samples at idx (all finite)
SortedAt(a, idx, k) ==
    CHOOSE v \in {a[i].v : i \in idx} :
        /\ Cardinality({j \in idx : a[j].v < v}) < k
        /\ k <= Cardinality({j \in idx : a[j].v <= v})

\* Twice np.median(d), d the samples at idx (non-empty, all finite)
Median2(a, idx) ==
    LET n == Cardinality(idx)
    IN IF n % 2 = 1 THEN 2 * SortedAt(a, idx, (n + 1) \div 2)
       ELSE SortedAt(a, idx, n \div 2) + SortedAt(a, idx, n \div 2 + 1)

\* n^2 times the variance np.std(d)^2 of the samples at idx (all finite)
VarN2(a, idx) ==
    LET n == Cardinality(idx)
        S == Sum(a, idx)
        Q == SumSq(a, idx)
    IN n * Q - S * S

\* np.abs(data - med) > sigma * std, med and std taken over data[~mask]
Deviates(a, mask, sigma) ==
    LET idx == Unmasked(a, mask)
        n == Cardinality(idx)
        stdIsNaN == \E i \in idx : a[i].k # "fin"
    IN [i \in DOMAIN a |->
           /\ ~stdIsNaN
           /\ a[i].k # "nan"
           /\ \/ a[i].k = "inf"
              \/ LET dev2 == 2 * a[i].v - Median2(a, idx)
                 IN dev2 * dev2 * sigma[2] * sigma[2] * n * n
                        > 4 * sigma[1] * sigma[1] * VarN2(a, idx)]

\* The candidate mask as it would be without the non-finite mask OR-ed in
new_mask_deviation_only(a, mask, sigma) == Deviates(a, mask, sigma)

\* new_mask after "new_mask |= np.isnan(data)"
new_mask(a, mask, sigma) ==
    [i \in DOMAIN a |-> Deviates(a, mask, sigma)[i] \/ isnan(a)[i]]

\* np.where(mask, np.nan, data)
WhereNaN(a, mask) == [i \in DOMAIN a |-> IF mask[i] THEN NaN ELSE a[i]]

\* data[~mask]: the surviving samples, in order
RECURSIVE Compressed(_, _)
Compressed(a, mask) ==
    IF Len(a) = 0 THEN <<>>
    ELSE LET front == Compressed(SubSeq(a, 1, Len(a) - 1), SubSeq(mask, 1, Len(a) - 1))
         IN IF mask[Len(a)] THEN front ELSE Append(front, a[Len(a)])

\* sigma_clip(data, sigma, maxiters) entered: mask = np.isnan(data)
ClipCall(a, sigma, maxiters, run, form, first) ==
    [pc |-> "loop", data |-> a, sigma |-> sigma, maxiters |-> maxiters,
     mask |-> isnan(a), iter |-> 0, stop |-> "", run |-> run, form |-> form,
     first |-> first]

\* One pass of the loop of sigma_clip; the pass that uses up maxiters leaves
\* the loop
ClipIterate ==
    /\ pc = "clip"
    /\ clip.pc = "loop"
    /\ clip.iter < clip.maxiters
    /\ IF Unmasked(clip.data, clip.mask) = {}
       THEN clip' = [clip EXCEPT !.pc = "done", !.stop = "empty"]
       ELSE LET new == new_mask(clip.data, clip.mask, clip.sigma)
            IN IF new = clip.mask
               THEN clip' = [clip EXCEPT !.pc = "done", !.stop = "converged"]
               ELSE IF clip.iter + 1 = clip.maxiters
                    THEN clip' = [clip EXCEPT !.mask = new, !.iter = @ + 1,
                                              !.pc = "done", !.stop = "maxiters"]
                    ELSE clip' = [clip EXCEPT !.mask = new, !.iter = @ + 1]
    /\ UNCHANGED <<fitsVars, wcs, ret, restVars>>

\* sigma_clip on the result of the first call, with the same sigma and
\* maxiters: on np.where(mask, nan, data) or on data[~mask]
ClipAgain ==
    /\ pc = "clip"
    /\ clip.pc = "done"
    /\ clip.run = 1
    /\ \E form \in {"nan", "removed"} :
           clip' = ClipCall(IF form = "nan" THEN WhereNaN(clip.data, clip.mask)
                                            ELSE Compressed(clip.data, clip.mask),
                            clip.sigma, clip.maxiters, 2, form,
                            [data |-> clip.data, mask |-> clip.mask, stop |-> clip.stop])
    /\ UNCHANGED <<fitsVars, wcs, ret, restVars>>

InitClip ==
    /\ \E a \in Arrays(MaxSamples) : \E sigma \in Sigmas : \E maxiters \in 1..MaxIters :
           clip = ClipCall(a, sigma, maxiters, 1, "", [stop |-> ""])
    /\ pc = "clip"
    /\ stream = "" /\ pos = 0 /\ closed = FALSE
    /\ header = EmptyHeader /\ history = <<>> /\ data = <<>>
    /\ err = NoError /\ reads = 0 /\ dataStart = -1
    /\ wcs = <<>> /\ ret = NoCall
    /\ finder = NoFinder /\ meas = NoMeasure /\ batch = NoBatch

NextClip ==
    \/ ClipIterate
    \/ ClipAgain

SpecClip == InitClip /\ [][NextClip]_vars

\* The second call ended and rejected nothing the first call had kept
SecondRejectsNoMore ==
    /\ clip.form = "nan" => clip.mask = clip.first.mask
    /\ clip.form = "removed" => \A i \in DOMAIN clip.mask : ~clip.mask[i]

\* C10 as stated: clipping the clipped result again, with the same sigma,
\* gives the same mask (rejects no further sample), however the first call
\* stopped, the stop by max_iterations included.
C10_IdempotentAlways ==
    (clip.pc = "done" /\ clip.run = 2) => SecondRejectsNoMore

\* C10, amended: clipping the clipped result again, with the same sigma, gives
\* the same mask whenever the first call stopped because its mask stopped
\* changing or because no sample was left unmasked.
C10_IdempotentWhenConverged ==
    (clip.pc = "done" /\ clip.run = 2 /\ clip.first.stop # "maxiters")
        => SecondRejectsNoMore

\* A second call has ended after a first call that rejected a finite sample
\* and then stopped because its mask stopped changing
C10_Witness ==
    /\ clip.pc = "done" /\ clip.run = 2
    /\ clip.first.stop = "converged"
    /\ \E i \in DOMAIN clip.first.data :
           clip.first.mask[i] /\ clip.first.data[i].k = "fin"
    /\ \E i \in DOMAIN clip.first.data : ~clip.first.mask[i]


-----------------------------------------------------------------------------
(***************************************************************************)
(* Photometry (star_find/find.py).                                         *)
(*                                                                         *)
(* An image is given by its size and the rule that yields its pixels;      *)
(* pixels are integers and coordinates run from 0.  A Python None is <<>>  *)
(* and a value that may be None is <<>> or <<v>>.  The dist of a star      *)
(* record holds the square of np.sqrt(...): squaring keeps the order and   *)
(* the equality of distances.                                              *)
(***************************************************************************)

MaxCalls == 3

None == <<>>
Some(v) == <<v>>

sky_radius == 3
max_radius == 50

\* The images analysed: a flat field, a flat-top disk of radius 5 on a flat
\* field, a single bright pixel on a flat field, a bright pixel with a dark
\* pixel three columns away, and a flat-top disk of radius 1
FlatImage == [shape |-> "flat", nx |-> 7, ny |-> 7, bg |-> 10, amp |-> 10, cx |-> 3, cy |-> 3, r |-> 0]
DiskImage == [shape |-> "disk", nx |-> 13, ny |-> 13, bg |-> 10, amp |-> 100, cx |-> 6, cy |-> 6, r |-> 5]
PointImage == [shape |-> "disk", nx |-> 7, ny |-> 7, bg |-> 10, amp |-> 100, cx |-> 3, cy |-> 3, r |-> 0]
SpotImage == [shape |-> "spot", nx |-> 7, ny |-> 7, bg |-> 10, amp |-> 100, cx |-> 3, cy |-> 3, r |-> 0]
BlobImage == [shape |-> "disk", nx |-> 7, ny |-> 7, bg |-> 10, amp |-> 100, cx |-> 3, cy |-> 3, r |-> 1]

\* image[y, x]
Pixel(image, x, y) ==
    IF image.shape = "spot" /\ x = image.cx + 3 /\ y = image.cy THEN 0
    ELSE IF (x - image.cx) * (x - image.cx) + (y - image.cy) * (y - image.cy)
                <= image.r * image.r
         THEN image.amp
         ELSE image.bg

\* The pixels of the image at squared distance <= radius^2 from (cx, cy)
DiskOf(image, cx, cy, radius) ==
    {p \in (0..(image.nx - 1)) \X (0..(image.ny - 1)) :
        (p[1] - cx) * (p[1] - cx) + (p[2] - cy) * (p[2] - cy) <= radius * radius}

\* np.sum(image[mask]), mask a set of pixels
RECURSIVE SumValues(_, _, _)
SumValues(image, pixels, values) ==
    IF values = {} THEN 0
    ELSE LET v == CHOOSE w \in values : TRUE
         IN v * Cardinality({p \in pixels : Pixel(image, p[1], p[2]) = v})
                + SumValues(image, pixels, values \ {v})

SumPixels(image, pixels) ==
    SumValues(image, pixels, {Pixel(image, p[1], p[2]) : p \in pixels})

\* Twice np.median(image[mask]), mask a non-empty set of pixels
MedianPixels2(image, pixels) ==
    LET n == Cardinality(pixels)
        At(k) == CHOOSE v \in {Pixel(image, p[1], p[2]) : p \in pixels} :
                    /\ Cardinality({p \in pixels : Pixel(image, p[1], p[2]) < v}) < k
                    /\ k <= Cardinality({p \in pixels : Pixel(image, p[1], p[2]) <= v})
    IN IF n % 2 = 1 THEN 2 * At((n + 1) \div 2) ELSE At(n \div 2) + At(n \div 2 + 1)

\* sum_within_radius(array, cx, cy, radius)
sum_within_radius(array, cx, cy, radius) == SumPixels(array, DiskOf(array, cx, cy, radius))

\* n and n * sky_value, sky_value = 2 * median - mean over the n pixels of the
\* disk of radius sky_radius around (cx, cy)
SkyOf(image, cx, cy) ==
    LET local_patch == DiskOf(image, cx, cy, sky_radius)
    IN <<Cardinality(local_patch),
         MedianPixels2(image, local_patch) * Cardinality(local_patch)
            - SumPixels(image, local_patch)>>

\* The one element of a set of one element
Only(S) == CHOOSE x \in S : TRUE

\* The pixels of the image with value <= sky_value
AtOrBelowSky(image, cx, cy) ==
    Only({ {p \in (0..(image.nx - 1)) \X (0..(image.ny - 1)) :
               Pixel(image, p[1], p[2]) * sky[1] <= sky[2]} :
           sky \in {SkyOf(image, cx, cy)} })

\* The squares of the distances from (cx, cy) to the pixels with value <= sky_value
LowDistances(image, cx, cy) ==
    {(p[1] - cx) * (p[1] - cx) + (p[2] - cy) * (p[2] - cy) : p \in AtOrBelowSky(image, cx, cy)}

\* The radii below max_radius at which np.any(values_in_circle <= sky_value)
\* holds: the while loop of analyze_stars breaks at the least of them
StopRadii(image, cx, cy) ==
    Only({ {star_radius \in 1..(max_radius - 1) :
               \E d \in low : d <= star_radius * star_radius} :
           low \in {LowDistances(image, cx, cy)} })

\* The records one candidate (cy, cx) adds to self.stars: one when the loop
\* breaks, none when star_radius reaches max_radius
RecordsOf(image, coord, ref_x, ref_y) ==
    LET cy == coord[1]
        cx == coord[2]
    IN Only({ IF stop = {} THEN <<>>
              ELSE << [cx |-> cx, cy |-> cy,
                       flux |-> sum_within_radius(image, cx, cy, MinOf(stop)),
                       star_radius |-> MinOf(stop),
                       dist |-> (cx - ref_x) * (cx - ref_x) + (cy - ref_y) * (cy - ref_y)] >> :
              stop \in {StopRadii(image, cx, cy)} })

\* The for loop of analyze_stars over minima_coords, appending to stars
RECURSIVE AppendRecords(_, _, _, _, _)
AppendRecords(stars, image, minima_coords, ref_x, ref_y) ==
    IF Len(minima_coords) = 0 THEN stars
    ELSE AppendRecords(stars \o RecordsOf(image, Head(minima_coords), ref_x, ref_y),
                       image, Tail(minima_coords), ref_x, ref_y)

\* The list left in the order in which the records were appended
AppendOrder(stars) == stars

\* list.sort(key=lambda star: star[4]): a stable sort by dist
RECURSIVE SortByDist(_)
SortByDist(stars) ==
    IF Len(stars) <= 1 THEN stars
    ELSE LET front == SortByDist(SubSeq(stars, 1, Len(stars) - 1))
             last == stars[Len(stars)]
             before == {i \in 1..Len(front) : front[i].dist <= last.dist}
             k == IF before = {} THEN 0 ELSE MaxOf(before)
         IN SubSeq(front, 1, k) \o <<last>> \o SubSeq(front, k + 1, Len(front))

\* analyze_stars(image, minima_coords, ref_point) on a finder whose stars list is
\* stars: the error raised, the list returned, and self.stars afterwards
analyze_stars(stars, image, minima_coords, ref_point) ==
    IF ref_point = None
    THEN [err |-> "TypeError", out |-> <<>>, stars |-> stars]
    ELSE LET ref_x == IF ref_point[1] = None THEN image.nx \div 2 ELSE ref_point[1][1]
             ref_y == IF ref_point[1] = None THEN image.ny \div 2 ELSE ref_point[2][1]
             sorted == SortByDist(AppendRecords(stars, image, minima_coords, ref_x, ref_y))
         IN [err |-> "", out |-> sorted, stars |-> sorted]

\* StarFinder(sigma, window_size)
NewFinder(window_size) ==
    [pc |-> "ready", window_size |-> window_size, stars |-> <<>>, calls |-> 0,
     ret |-> [op |-> ""]]

\* The calls of analyze_stars made: an image, its candidates (cy, cx) and the
\* reference point, which is omitted (None), (None, None) or a pixel
Args(image, minima_coords, ref_point) ==
    [image |-> image, minima_coords |-> minima_coords, ref_point |-> ref_point]

AnalyzeCalls ==
    {Args(FlatImage, <<>>, <<None, None>>),
     Args(FlatImage, << <<3, 3>>, <<1, 1>> >>, <<None, None>>),
     Args(FlatImage, << <<3, 3>> >>, None),
     Args(DiskImage, << <<6, 6>> >>, <<None, None>>),
     Args(DiskImage, << <<1, 1>>, <<6, 6>> >>, <<Some(6), Some(6)>>),
     Args(PointImage, << <<3, 3>> >>, <<None, None>>),
     Args(PointImage, << <<3, 3>>, <<1, 1>> >>, <<Some(1), Some(0)>>),
     Args(SpotImage, << <<3, 3>> >>, <<None, None>>),
     Args(SpotImage, << <<1, 1>>, <<3, 3>> >>, <<Some(1), Some(0)>>),
     Args(BlobImage, << <<5, 2>>, <<3, 3>>, <<1, 1>> >>, <<None, None>>)}

\* finder.analyze_stars(image, minima_coords, ref_point)
CallAnalyzeStars ==
    /\ pc = "stars"
    /\ finder.calls < MaxCalls
    /\ \E a \in AnalyzeCalls :
          \E r \in {analyze_stars(finder.stars, a.image, a.minima_coords, a.ref_point)} :
             finder' = [finder EXCEPT
                 !.stars = r.stars,
                 !.calls = @ + 1,
                 !.ret = [op |-> "analyze_stars", image |-> a.image,
                          minima_coords |-> a.minima_coords, ref_point |-> a.ref_point,
                          err |-> r.err, out |-> r.out, before |-> finder.stars]]
    /\ UNCHANGED <<fitsVars, wcs, ret, clip, meas, batch>>

\* np.pad(arr, size // 2, mode='reflect'): the index inside 0..n-1 that the
\* padded index i mirrors
Reflect(i, n) == IF i < 0 THEN -i ELSE IF i > n - 1 THEN 2 * (n - 1) - i ELSE i

\* The k-th smallest of a bag of values given as a function on a finite set
KthOf(f, k) ==
    CHOOSE v \in {f[d] : d \in DOMAIN f} :
        /\ Cardinality({d \in DOMAIN f : f[d] < v}) < k
        /\ k <= Cardinality({d \in DOMAIN f : f[d] <= v})

\* median_filter_numpy(arr, size), size odd: rows of medians over size x size
\* windows of the reflect-padded array
median_filter_numpy(arr, size) ==
    LET half == size \div 2
        offsets == ((-half)..half) \X ((-half)..half)
        window(x, y) == [d \in offsets |->
                            Pixel(arr, Reflect(x + d[1], arr.nx), Reflect(y + d[2], arr.ny))]
    IN [row \in 1..arr.ny |->
           [col \in 1..arr.nx |-> KthOf(window(col - 1, row - 1), (size * size + 1) \div 2)]]

\* find_stars(image) on a finder with the given window_size: the median-filtered
\* array handed to the edge detector, and the X handed to
\* local_minima_sliding_window
find_stars(window_size, image) ==
    [filtered |-> median_filter_numpy(image, 3), X |-> 2]

WindowSizes == {3, 5}

\* finder.find_stars(image)
CallFindStars ==
    /\ pc = "stars"
    /\ finder.calls < MaxCalls
    /\ \E image \in {FlatImage, BlobImage, SpotImage} :
          \E r \in {find_stars(finder.window_size, image)} :
             finder' = [finder EXCEPT
                 !.calls = @ + 1,
                 !.ret = [op |-> "find_stars", image |-> image,
                          filtered |-> r.filtered, X |-> r.X]]
    /\ UNCHANGED <<fitsVars, wcs, ret, clip, meas, batch>>

\* find.StarFinder(sigma=1.0, window_size=w)
InitStars ==
    /\ \E w \in WindowSizes : finder = NewFinder(w)
    /\ pc = "stars"
    /\ stream = "" /\ pos = 0 /\ closed = FALSE
    /\ header = EmptyHeader /\ history = <<>> /\ data = <<>>
    /\ err = NoError /\ reads = 0 /\ dataStart = -1
    /\ wcs = <<>> /\ ret = NoCall /\ clip = NoClip
    /\ meas = NoMeasure /\ batch = NoBatch

NextStars ==
    \/ CallAnalyzeStars
    \/ CallFindStars

SpecStars == InitStars /\ [][NextStars]_vars

\* The last call was an analyze_stars call that returned
Analyzed == finder.ret.op = "analyze_stars" /\ finder.ret.err = ""

\* The squared distance from the record's candidate to (x, y)
DistTo(star, x, y) == (star.cx - x) * (star.cx - x) + (star.cy - y) * (star.cy - y)

\* C11: analyze_stars produces exactly one record for every candidate it is
\* given: the list it returns on a fresh finder has one record per candidate, in
\* particular one for a candidate whose aperture reaches the radius cap.
C11_OneRecordPerCandidate ==
    (Analyzed /\ finder.ret.before = <<>>) =>
        /\ Len(finder.ret.out) = Len(finder.ret.minima_coords)
        /\ \A j \in DOMAIN finder.ret.minima_coords :
              \E i \in DOMAIN finder.ret.out :
                 <<finder.ret.out[i].cy, finder.ret.out[i].cx>> = finder.ret.minima_coords[j]

\* C12: on the flat field with a flat-top disk of radius 5, the record of the
\* candidate at the disk centre has an aperture radius in 4..6 and a flux within
\* 1% of the sum of the disk's pixels.
C12_DiskRadiusAndFlux ==
    (Analyzed /\ finder.ret.before = <<>> /\ finder.ret.image = DiskImage) =>
        \A i \in DOMAIN finder.ret.out :
            (finder.ret.out[i].cx = DiskImage.cx /\ finder.ret.out[i].cy = DiskImage.cy) =>
                /\ finder.ret.out[i].star_radius \in 4..6
                /\ 100 * Abs(finder.ret.out[i].flux
                               - sum_within_radius(DiskImage, DiskImage.cx, DiskImage.cy, DiskImage.r))
                      <= sum_within_radius(DiskImage, DiskImage.cx, DiskImage.cy, DiskImage.r)

\* C13: the list an analyze_stars call returns holds records only for the
\* candidates passed to that call, never a record made by an earlier call on
\* the same finder.
C13_OnlyThisCallsCandidates ==
    Analyzed =>
        /\ Len(finder.ret.out) <= Len(finder.ret.minima_coords)
        /\ \A i \in DOMAIN finder.ret.out :
              \E j \in DOMAIN finder.ret.minima_coords :
                 finder.ret.minima_coords[j] = <<finder.ret.out[i].cy, finder.ret.out[i].cx>>

\* C14: the list analyze_stars returns is in ascending order of the records'
\* distance, after any number of calls.
C14_SortedByDistance ==
    Analyzed =>
        \A i \in 1..(Len(finder.ret.out) - 1) :
            finder.ret.out[i].dist <= finder.ret.out[i + 1].dist

\* A later call returned three or more records, and the order in which they
\* were appended was not the order of their distances
C14_Witness ==
    /\ Analyzed
    /\ finder.calls >= 2
    /\ finder.ret.before # <<>>
    /\ Len(finder.ret.out) >= 3
    /\ \E i, j \in DOMAIN finder.ret.out : finder.ret.out[i].dist < finder.ret.out[j].dist
    /\ \E ref \in {finder.ret.ref_point} :
          AppendRecords(finder.ret.before, finder.ret.image, finder.ret.minima_coords,
                        IF ref[1] = None THEN finder.ret.image.nx \div 2 ELSE ref[1][1],
                        IF ref[1] = None THEN finder.ret.image.ny \div 2 ELSE ref[2][1])
             # finder.ret.out

\* C15: analyze_stars does not fail when no reference point is given, and then
\* every record's distance is the distance to the image centre (nx//2, ny//2);
\* when a reference pixel is given, the distance is the distance to that pixel.
C15_DistanceToReference ==
    (finder.ret.op = "analyze_stars" /\ finder.ret.before = <<>>) =>
        /\ finder.ret.err = ""
        /\ \A i \in DOMAIN finder.ret.out :
              finder.ret.out[i].dist =
                 IF finder.ret.ref_point \in {None, <<None, None>>}
                 THEN DistTo(finder.ret.out[i], finder.ret.image.nx \div 2,
                             finder.ret.image.ny \div 2)
                 ELSE DistTo(finder.ret.out[i], finder.ret.ref_point[1][1],
                             finder.ret.ref_point[2][1])

\* C20: find_stars on a finder constructed with window size w filters the image
\* with a w x w median window.
C20_WindowSizeUsed ==
    finder.ret.op = "find_stars" =>
        finder.ret.filtered = median_filter_numpy(finder.ret.image, finder.window_size)

-----------------------------------------------------------------------------
(***************************************************************************)
(* The astrometric measurer (measure.py).                                  *)
(*                                                                         *)
(* A separation is kept as the pair (dx, dy) it is the norm of and a delta *)
(* magnitude 2.5*log10(R) as the ratio R >= 1; the position angle, a chain *)
(* of trigonometric functions, finite whenever it is computed, is kept     *)
(* as the tangent-plane coordinates it is computed from.                   *)
(***************************************************************************)

\* Star(x, y, flux)
Star(x, y, flux) == [x |-> RInt(x), y |-> RInt(y), flux |-> RInt(flux)]

\* (xi, eta): the CD matrix applied to the star's offset from CRPIX
TangentPlane(w, star) ==
    LET dx == RSub(star.x, w.CRPIX1)
        dy == RSub(star.y, w.CRPIX2)
    IN <<RAdd(RMul(w.CD1_1, dx), RMul(w.CD1_2, dy)),
         RAdd(RMul(w.CD2_1, dx), RMul(w.CD2_2, dy))>>

\* measure.position_angle: rho = sqrt(xi^2 + eta^2) divides in the deprojection
\* of each star, star1 first
position_angle(w, star1, star2) ==
    LET p1 == TangentPlane(w, star1)
        p2 == TangentPlane(w, star2)
    IN IF (RIsZero(p1[1]) /\ RIsZero(p1[2])) \/ (RIsZero(p2[1]) /\ RIsZero(p2[2]))
       THEN Raised("ZeroDivisionError")
       ELSE Returned([theta |-> <<p1, p2, w.CRVAL1, w.CRVAL2>>])

\* measure.separation: the norm of (dx, dy), kept as the pair
separation(w, star1, star2) ==
    LET dx == RMul(RMul(RSub(star2.x, star1.x), w.CDELT1), RInt(3600))
        dy == RMul(RMul(RSub(star2.y, star1.y), w.CDELT2), RInt(3600))
    IN Returned([dx |-> dx, dy |-> dy])

\* a <= 0 for a rational a
RNonPositive(a) == a[1] <= 0

\* delta_mag as it would be if only the flux of star1 were tested
delta_mag_first_only(star1, star2) ==
    IF RNonPositive(star1.flux) THEN Raised("ValueError")
    ELSE IF RIsZero(star2.flux) THEN Raised("ZeroDivisionError")
    ELSE Returned([R |-> RDiv(star1.flux, star2.flux)])

\* measure.delta_mag: abs(-2.5 * log10(flux1 / flux2)) = 2.5 * log10(R) with R the
\* larger of flux1 / flux2 and flux2 / flux1
delta_mag(star1, star2) ==
    IF RNonPositive(star1.flux) \/ RNonPositive(star2.flux)
    THEN Raised("ValueError")
    ELSE LET ratio == RDiv(star1.flux, star2.flux)
         IN Returned([R |-> IF ratio[1] >= ratio[2] THEN ratio ELSE RDiv(star2.flux, star1.flux)])

\* The WCS objects measured with: the scale 1e-4 deg/pixel at (180, 0), a rotated
\* and scaled matrix, a matrix with zero diagonal, and a singular matrix
MeasureHeaders ==
    {[CD1_1 |-> <<1, 10000>>, CD1_2 |-> RInt(0), CD2_1 |-> RInt(0), CD2_2 |-> <<1, 10000>>,
      CTYPE1 |-> "RA---TAN", CTYPE2 |-> "DEC--TAN",
      CRPIX1 |-> RInt(0), CRPIX2 |-> RInt(0), CRVAL1 |-> RInt(180), CRVAL2 |-> RInt(0)]}
    \cup
    {h \in WCSHeaders :
        /\ <<h.CD1_1[1], h.CD1_2[1], h.CD2_1[1], h.CD2_2[1]>>
              \in {<<4, -3, 3, 4>>, <<0, 3, 3, 0>>, <<3, 3, 4, 4>>}
        /\ h.CRPIX1 = RInt(1)}

StarPixels == {<<0, 0>>, <<36, 0>>, <<1, 2>>}
Fluxes == {-1, 0, 25, 100}
Stars == {Star(p[1], p[2], f) : p \in StarPixels, f \in Fluxes}

MeasureCall(op, result) ==
    [meas EXCEPT !.op = op, !.err = result.err, !.out = result.out, !.before = wcs]

\* m.separation(star1, star2)
CallSeparation ==
    /\ pc = "measure"
    /\ meas' = MeasureCall("separation", separation(wcs[1], meas.star1, meas.star2))
    /\ UNCHANGED <<fitsVars, wcs, ret, clip, finder, batch>>

\* m.position_angle(star1, star2)
CallPositionAngle ==
    /\ pc = "measure"
    /\ meas' = MeasureCall("position_angle", position_angle(wcs[1], meas.star1, meas.star2))
    /\ UNCHANGED <<fitsVars, wcs, ret, clip, finder, batch>>

\* m.delta_mag(star1, star2)
CallDeltaMag ==
    /\ pc = "measure"
    /\ meas' = MeasureCall("delta_mag", delta_mag(meas.star1, meas.star2))
    /\ UNCHANGED <<fitsVars, wcs, ret, clip, finder, batch>>

\* measure(wcs) and two stars
InitMeasure ==
    /\ \E h \in MeasureHeaders : wcs = <<WCSNew(h)>>
    /\ \E star1 \in Stars : \E star2 \in Stars :
          meas = [op |-> "", star1 |-> star1, star2 |-> star2,
                  err |-> "", out |-> <<>>, before |-> <<>>,
                  given |-> <<star1, star2>>]
    /\ pc = "measure"
    /\ stream = "" /\ pos = 0 /\ closed = FALSE
    /\ header = EmptyHeader /\ history = <<>> /\ data = <<>>
    /\ err = NoError /\ reads = 0 /\ dataStart = -1
    /\ ret = NoCall /\ clip = NoClip
    /\ finder = NoFinder /\ batch = NoBatch

NextMeasure ==
    \/ CallSeparation
    \/ CallPositionAngle
    \/ CallDeltaMag

SpecMeasure == InitMeasure /\ [][NextMeasure]_vars

\* Whether the two stars are at distinct pixels with positive flux
UsablePair(star1, star2) ==
    /\ <<star1.x, star1.y>> # <<star2.x, star2.y>>
    /\ ~RNonPositive(star1.flux) /\ ~RNonPositive(star2.flux)

\* C16: with a non-singular CD matrix and two stars at distinct pixels with
\* positive flux, separation, position_angle and delta_mag each return a value,
\* also when a star lies on the reference pixel; for CD = 1e-4 * identity,
\* CRVAL = (180, 0), CRPIX = (0, 0), star1 at (0, 0) with flux 100 and star2 at
\* (36, 0) with flux 25 the separation is 12.96 (dx = 12.96, dy = 0) and the
\* delta magnitude is 2.5 * log10(4) = 1.505.
C16_MeasurementIsFinite ==
    (meas.op # "" /\ ~RIsZero(Det(wcs[1])) /\ UsablePair(meas.star1, meas.star2)) =>
        /\ meas.err = ""
        /\ (/\ wcs[1].CD1_1 = <<1, 10000>>
            /\ meas.star1 = Star(0, 0, 100) /\ meas.star2 = Star(36, 0, 25)) =>
               /\ meas.op = "separation" =>
                     meas.out = [dx |-> <<324, 25>>, dy |-> RInt(0)]
               /\ meas.op = "delta_mag" => meas.out = [R |-> RInt(4)]

-----------------------------------------------------------------------------
(***************************************************************************)
(* The batch run (gui.py, StarAnalyzerApp.process_files).                  *)
(*                                                                         *)
(* A file of the directory is given by what the steps before photometry    *)
(* make of it: whether fits.FITS(f) returns, raises or never returns, the  *)
(* WCS header it carries, its image and the candidates find_stars returns. *)
(* The target coordinates are chosen so that the reference pixel is a      *)
(* whole pixel.                                                            *)
(***************************************************************************)

MaxFiles == 2

DarkImage == [shape |-> "flat", nx |-> 7, ny |-> 7, bg |-> 0, amp |-> 0, cx |-> 3, cy |-> 3, r |-> 0]

\* The header of a WCS with CD = [[a, b], [c, d]], CRPIX = CRVAL = (0, 0)
HeaderOfCD(a, b, c, d) ==
    [CD1_1 |-> RInt(a), CD1_2 |-> RInt(b), CD2_1 |-> RInt(c), CD2_2 |-> RInt(d),
     CTYPE1 |-> "RA---TAN", CTYPE2 |-> "DEC--TAN",
     CRPIX1 |-> RInt(0), CRPIX2 |-> RInt(0), CRVAL1 |-> RInt(0), CRVAL2 |-> RInt(0)]

FileOf(load, h, image, minima_coords) ==
    [load |-> load, header |-> h, image |-> image, minima_coords |-> minima_coords]

\* The kinds of file in the directory: one the reader rejects, one on which the
\* reader never returns, files with zero, one and two candidates, one whose
\* only bright candidate reaches the radius cap, one whose records have flux 0,
\* and one whose WCS has a zero CDELT
FileKinds ==
    {FileOf("KeyError", HeaderOfCD(3, 0, 0, 3), FlatImage, <<>>),
     FileOf("hang", HeaderOfCD(3, 0, 0, 3), FlatImage, <<>>),
     FileOf("", HeaderOfCD(3, 0, 0, 3), FlatImage, <<>>),
     FileOf("", HeaderOfCD(3, 0, 0, 3), FlatImage, << <<3, 3>> >>),
     FileOf("", HeaderOfCD(3, 0, 0, 3), BlobImage, << <<5, 2>>, <<3, 3>>, <<1, 1>> >>),
     FileOf("", HeaderOfCD(3, 0, 0, 3), PointImage, << <<3, 3>>, <<1, 1>> >>),
     FileOf("", HeaderOfCD(3, 0, 0, 3), DarkImage, << <<3, 3>>, <<1, 1>> >>),
     FileOf("", HeaderOfCD(0, 3, 3, 0), FlatImage, << <<3, 3>>, <<1, 1>> >>)}

\* All directories of at most n files
RECURSIVE Directories(_)
Directories(n) ==
    IF n = 0 THEN {<<>>}
    ELSE LET shorter == Directories(n - 1)
         IN shorter \cup {Append(d, f) : d \in {e \in shorter : Len(e) = n - 1}, f \in FileKinds}

\* The text of the RA and DEC entries: empty, a number, or not a number
Entries == {"", "3", "0", "abc"}

\* float(s) for the entries used
EntryValue(s) == IF s = "3" THEN RInt(3) ELSE RInt(0)

\* Star(*args): the dataclass has the three fields x, y, flux
MakeStar(args) ==
    IF Len(args) # 3 THEN Raised("TypeError")
    ELSE Returned([x |-> RInt(args[1]), y |-> RInt(args[2]), flux |-> RInt(args[3])])

\* The five components (x, y, flux, aperture_radius, distance) of a record
Components(star) == <<star.cx, star.cy, star.flux, star.star_radius, star.dist>>

\* An outcome of the try block: an exception, or the values of a results entry
Failed(e) == [kind |-> "error", err |-> e]

Measured(sep, angle, dmag, star1) ==
    [kind |-> "result", sep |-> sep, angle |-> angle, dmag |-> dmag, star1 |-> star1]

\* The measurement of the try block: separation, position_angle, delta_mag
MeasurePair(w, star1, star2) ==
    IF position_angle(w, star1, star2).err # ""
    THEN Failed(position_angle(w, star1, star2).err)
    ELSE IF delta_mag(star1, star2).err # ""
         THEN Failed(delta_mag(star1, star2).err)
         ELSE Measured(separation(w, star1, star2).out, position_angle(w, star1, star2).out,
                       delta_mag(star1, star2).out, star1)

\* The try block from the photometry on, given the WCS and the reference point
AfterLoad(file, w, ref_point) ==
    \* finder = find.StarFinder(...); coords = finder.find_stars(...);
    \* stars = finder.analyze_stars(fits_file.data, coords, (x, y))
    LET stars == analyze_stars(<<>>, file.image, file.minima_coords, ref_point).out
    IN IF Len(stars) < 2 THEN Failed("ValueError")
       ELSE IF MakeStar(Components(stars[1])).err # ""
            THEN Failed(MakeStar(Components(stars[1])).err)
            ELSE IF MakeStar(Components(stars[2])).err # ""
                 THEN Failed(MakeStar(Components(stars[2])).err)
                 ELSE LET a == MakeStar(Components(stars[1])).out
                          b == MakeStar(Components(stars[2])).out
                      IN IF RNonPositive(RSub(b.flux, a.flux))
                         THEN MeasurePair(w, a, b)
                         ELSE MeasurePair(w, b, a)

\* The try block of process_files for one file that the reader returns or
\* raises on; ra and dec are None or the numbers entered
TryFile(file, ra, dec) ==
    IF file.load # "" THEN Failed(file.load)
    ELSE LET w == WCSNew(file.header)
         IN IF ra # None /\ dec # None
            THEN LET p == world_to_pixel(w, ra[1], dec[1])
                 IN IF p.err # "" THEN Failed(p.err)
                    ELSE AfterLoad(file, w, <<Some(p.out[1][1] \div p.out[1][2]),
                                               Some(p.out[2][1] \div p.out[2][2])>>)
            ELSE AfterLoad(file, w, <<None, None>>)

\* What one pass of the for loop does with the outcome, if every outcome were
\* appended to results
RecordAllAsResults(b, outcome) ==
    [b EXCEPT !.results = Append(@, [idx |-> b.idx, filename |-> b.idx + 1, out |-> outcome]),
              !.idx = @ + 1,
              !.pc = IF b.idx + 1 = Len(b.files) THEN "done" ELSE "loop"]

\* What one pass of the for loop does with the outcome, if an exception ended
\* the loop
AbortOnError(b, outcome) ==
    IF outcome.kind = "error"
    THEN [b EXCEPT !.errors = Append(@, [filename |-> b.idx + 1, err |-> outcome.err]),
                   !.idx = @ + 1, !.pc = "done"]
    ELSE [b EXCEPT !.results = Append(@, [idx |-> b.idx, filename |-> b.idx + 1, out |-> outcome]),
                   !.idx = @ + 1,
                   !.pc = IF b.idx + 1 = Len(b.files) THEN "done" ELSE "loop"]

\* What one pass of the for loop does with the outcome of its try block: append
\* to results, or to errors in the except clause; then the next file. A file is
\* named by its place in the directory.
RecordOutcome(b, outcome) ==
    IF outcome.kind = "error"
    THEN [b EXCEPT !.errors = Append(@, [filename |-> b.idx + 1, err |-> outcome.err]),
                   !.idx = @ + 1,
                   !.pc = IF b.idx + 1 = Len(b.files) THEN "done" ELSE "loop"]
    ELSE [b EXCEPT !.results = Append(@, [idx |-> b.idx, filename |-> b.idx + 1, out |-> outcome]),
                   !.idx = @ + 1,
                   !.pc = IF b.idx + 1 = Len(b.files) THEN "done" ELSE "loop"]

\* process_files up to the for loop: clear results and errors, read the entries,
\* list the directory
StartBatch ==
    /\ pc = "batch"
    /\ batch.pc = "start"
    /\ IF batch.ra_str = "abc" \/ batch.dec_str = "abc"
       THEN batch' = [batch EXCEPT !.pc = "rejected", !.results = <<>>, !.errors = <<>>]
       ELSE batch' = [batch EXCEPT
                !.results = <<>>, !.errors = <<>>,
                !.ra = IF batch.ra_str = "" THEN None ELSE Some(EntryValue(batch.ra_str)),
                !.dec = IF batch.dec_str = "" THEN None ELSE Some(EntryValue(batch.dec_str)),
                !.files = batch.directory,
                !.pc = IF Len(batch.directory) = 0 THEN "done" ELSE "loop"]
    /\ UNCHANGED <<fitsVars, wcs, ret, clip, finder, meas>>

\* One pass of the for loop of process_files
ProcessFile ==
    /\ pc = "batch"
    /\ batch.pc = "loop"
    /\ batch.files[batch.idx + 1].load # "hang"
    /\ \E outcome \in {TryFile(batch.files[batch.idx + 1], batch.ra, batch.dec)} :
          batch' = RecordOutcome(batch, outcome)
    /\ UNCHANGED <<fitsVars, wcs, ret, clip, finder, meas>>

\* The Process button is pressed on an application whose lists may hold the
\* entries of an earlier run
InitBatch ==
    /\ \E directory \in Directories(MaxFiles) : \E ra_str \in Entries : \E dec_str \in Entries :
       \E old \in {<<>>, <<[filename |-> 1, err |-> "KeyError"]>>} :
          batch = [pc |-> "start", directory |-> directory, ra_str |-> ra_str,
                   dec_str |-> dec_str, ra |-> None, dec |-> None, files |-> <<>>,
                   idx |-> 0, results |-> <<>>, errors |-> old]
    /\ pc = "batch"
    /\ stream = "" /\ pos = 0 /\ closed = FALSE
    /\ header = EmptyHeader /\ history = <<>> /\ data = <<>>
    /\ err = NoError /\ reads = 0 /\ dataStart = -1
    /\ wcs = <<>> /\ ret = NoCall /\ clip = NoClip
    /\ finder = NoFinder /\ meas = NoMeasure

NextBatch ==
    \/ StartBatch
    \/ ProcessFile

SpecBatch == InitBatch /\ [][NextBatch]_vars

-----------------------------------------------------------------------------
(***************************************************************************)
(* Overlapping batch runs (gui.py, thread_process): every press of the     *)
(* Process button starts a thread that runs process_files on the lists     *)
(* results and errors of the one application object.  A thread works on    *)
(* its own locals except when it clears the two lists and when it appends  *)
(* an outcome: these are its steps.  The lock is held only around          *)
(* results.append, so it orders no two steps.  The RA and DEC entries are  *)
(* empty.                                                                  *)
(***************************************************************************)

MaxThreads == 2

Threads == 1..MaxThreads

\* The directories the entry can name: the files of each, by place
Folders ==
    [A |-> <<FileOf("KeyError", HeaderOfCD(3, 0, 0, 3), FlatImage, <<>>),
             FileOf("", HeaderOfCD(3, 0, 0, 3), FlatImage, << <<3, 3>>, <<1, 1>> >>)>>,
     B |-> <<FileOf("", HeaderOfCD(3, 0, 0, 3), FlatImage, << <<3, 3>> >>)>>]

\* os.listdir: a file is named by its directory and its place in it
Listing(dir) == [i \in 1..Len(Folders[dir]) |-> <<dir, i>>]

IdleThread == [pc |-> "idle", dir |-> "", files |-> <<>>, idx |-> 0]

\* thread_process: a thread is created and started on process_files; the
\* directory is the one in the entry when the thread reads it
Press(t) ==
    /\ pc = "threads"
    /\ t = Len(batch.order) + 1
    /\ batch.threads[t].pc = "idle"
    /\ \E dir \in DOMAIN Folders :
          batch' = [batch EXCEPT !.order = Append(@, t),
                                 !.threads[t] = [IdleThread EXCEPT !.pc = "clear_results",
                                                                   !.dir = dir]]
    /\ UNCHANGED <<fitsVars, wcs, ret, clip, finder, meas>>

\* self.results.clear()
ClearResults(t) ==
    /\ pc = "threads"
    /\ batch.threads[t].pc = "clear_results"
    /\ batch' = [batch EXCEPT !.results = <<>>, !.threads[t].pc = "clear_errors"]
    /\ UNCHANGED <<fitsVars, wcs, ret, clip, finder, meas>>

\* self.errors.clear(), then the entries are read and the directory is listed
ClearErrors(t) ==
    /\ pc = "threads"
    /\ batch.threads[t].pc = "clear_errors"
    /\ batch' = [batch EXCEPT
            !.errors = <<>>,
            !.threads[t].files = Listing(batch.threads[t].dir),
            !.threads[t].pc = IF Len(Listing(batch.threads[t].dir)) = 0 THEN "done" ELSE "loop"]
    /\ UNCHANGED <<fitsVars, wcs, ret, clip, finder, meas>>

\* One pass of the for loop in thread t: the try block on the thread's locals,
\* then the append to results (under the lock) or to errors
ThreadFile(t) ==
    /\ pc = "threads"
    /\ batch.threads[t].pc = "loop"
    /\ LET me == batch.threads[t]
           filename == me.files[me.idx + 1]
       IN \E outcome \in {TryFile(Folders[filename[1]][filename[2]], None, None)} :
             batch' = [batch EXCEPT
                 !.results = IF outcome.kind = "error" THEN @
                             ELSE Append(@, [idx |-> me.idx, filename |-> filename,
                                             out |-> outcome]),
                 !.errors = IF outcome.kind = "error"
                            THEN Append(@, [filename |-> filename, err |-> outcome.err])
                            ELSE @,
                 !.threads[t].idx = @ + 1,
                 !.threads[t].pc = IF me.idx + 1 = Len(me.files) THEN "done" ELSE "loop"]
    /\ UNCHANGED <<fitsVars, wcs, ret, clip, finder, meas>>

\* StarAnalyzerApp.__init__: empty lists, no thread started
InitThreads ==
    /\ batch = [results |-> <<>>, errors |-> <<>>, order |-> <<>>,
                threads |-> [t \in Threads |-> IdleThread]]
    /\ pc = "threads"
    /\ stream = "" /\ pos = 0 /\ closed = FALSE
    /\ header = EmptyHeader /\ history = <<>> /\ data = <<>>
    /\ err = NoError /\ reads = 0 /\ dataStart = -1
    /\ wcs = <<>> /\ ret = NoCall /\ clip = NoClip
    /\ finder = NoFinder /\ meas = NoMeasure

NextThreads ==
    \E t \in Threads :
        \/ Press(t)
        \/ ClearResults(t)
        \/ ClearErrors(t)
        \/ ThreadFile(t)

SpecThreads == InitThreads /\ [][NextThreads]_vars

\* The files the loop has finished with, by name
Handled == 1..batch.idx

\* The number of entries of a list that name the file
EntriesFor(list, name) == Cardinality({i \in 1..Len(list) : list[i].filename = name})

\* The records photometry yields for a file that have a positive flux
UsableRecords(file) ==
    LET stars == analyze_stars(<<>>, file.image, file.minima_coords, <<None, None>>).out
    IN {i \in 1..Len(stars) : stars[i].flux > 0}

\* Photometry ran on the file: the reader returned and the reference pixel, if
\* one was asked for, was computed
PhotometryRan(file) ==
    /\ file.load = ""
    /\ (batch.ra # None /\ batch.dec # None) =>
           world_to_pixel(WCSNew(file.header), batch.ra[1], batch.dec[1]).err = ""

\* C18: a file whose photometry yields fewer than two records of positive flux
\* gets no entry in results and one entry in errors, and is analysed once
C18_NoMeasurementBelowTwoStars ==
    pc = "batch" =>
        \A name \in Handled :
            (PhotometryRan(batch.files[name]) /\ Cardinality(UsableRecords(batch.files[name])) < 2) =>
                /\ EntriesFor(batch.results, name) = 0
                /\ EntriesFor(batch.errors, name) = 1

C18_Witness ==
    /\ pc = "batch"
    /\ batch.pc = "done"
    /\ \E name \in Handled :
          /\ PhotometryRan(batch.files[name])
          /\ batch.files[name].image = DarkImage
          /\ Cardinality(UsableRecords(batch.files[name])) = 0
          /\ EntriesFor(batch.errors, name) = 1
    /\ \E name \in Handled :
          /\ PhotometryRan(batch.files[name])
          /\ Cardinality(UsableRecords(batch.files[name])) = 1
          /\ \E i \in 1..Len(batch.errors) :
                batch.errors[i].filename = name /\ batch.errors[i].err = "ValueError"

\* C19: an exception in one file does not end the run: the run ends only after
\* the last file, and every file the loop has finished with has exactly one
\* outcome, an entry in results or an entry in errors that names it
C19_OneOutcomePerFile ==
    pc = "batch" =>
        /\ batch.pc = "done" => batch.idx = Len(batch.files)
        /\ \A name \in Handled :
              EntriesFor(batch.results, name) + EntriesFor(batch.errors, name) = 1
        /\ batch.pc \in {"loop", "done"} =>
              Len(batch.results) + Len(batch.errors) = batch.idx

C19_Witness ==
    /\ pc = "batch"
    /\ batch.pc = "done"
    /\ Len(batch.files) = 2
    /\ batch.files[1].load = "KeyError"
    /\ batch.files[2].load = ""
    /\ EntriesFor(batch.errors, 1) = 1
    /\ EntriesFor(batch.results, 2) + EntriesFor(batch.errors, 2) = 1

\* C25: a file that loads and whose photometry yields at least two records of
\* positive flux gets exactly one entry in results and none in errors
C25_TwoStarsGiveOneResult ==
    pc = "batch" =>
        \A name \in Handled :
            (PhotometryRan(batch.files[name]) /\ Cardinality(UsableRecords(batch.files[name])) >= 2) =>
                /\ EntriesFor(batch.results, name) = 1
                /\ EntriesFor(batch.errors, name) = 0

\* Every thread that was started has finished, and one was started
AllFinished ==
    /\ Len(batch.order) >= 1
    /\ \A t \in Threads : batch.threads[t].pc \in {"idle", "done"}

\* C26: once all threads have finished, results and errors together hold one
\* outcome for each file of the run started last and nothing else
C26_OnlyLastRunOutcomes ==
    (pc = "threads" /\ AllFinished) =>
        LET last == batch.threads[batch.order[Len(batch.order)]]
        IN /\ \A i \in 1..Len(last.files) :
                 EntriesFor(batch.results, last.files[i])
                     + EntriesFor(batch.errors, last.files[i]) = 1
           /\ Len(batch.results) + Len(batch.errors) = Len(last.files)

\* The header read so far lacks one of the ten WCS keywords
LacksWCSKey == \E i \in 1..Len(WCSKeys) : WCSKeys[i] \notin DOMAIN header

\* The WCS of the object holds the CROTA2, CDELT1 and CDELT2 of its CD matrix
WCSComputed ==
    /\ wcs # <<>>
    /\ wcs[1].CROTA2 = sky_angle(wcs[1])
    /\ <<wcs[1].CDELT1, wcs[1].CDELT2>> = sky_scale(wcs[1])

\* C24: with a WCS keyword absent and the five required keywords valid, the
\* end of _read_header raises and no pixel data is read; whenever the data has
\* been reached or set, no WCS keyword is absent and the WCS holds CROTA2,
\* CDELT1 and CDELT2
C24_NoDataWithoutWCS ==
    /\ [](pc \in {"validate", "read_data", "done", "failed"} =>
            /\ (pc \in {"read_data", "done"} \/ data # <<>> \/ dataStart # -1) =>
                   (~LacksWCSKey /\ WCSComputed)
            /\ (EndFound /\ LacksWCSKey) => (data = <<>> /\ dataStart = -1))
    /\ [][(pc = "validate" /\ RequiredError(header) = NoError /\ LacksWCSKey) =>
            (pc' = "failed" /\ err'.type = "KeyError" /\ data' = <<>> /\ dataStart' = -1)]_vars

\* The constructor has failed on a header whose required keywords are valid
\* and which lacks a WCS keyword
C24_Witness ==
    /\ pc = "failed"
    /\ err.type = "KeyError"
    /\ RequiredError(header) = NoError
    /\ LacksWCSKey
    /\ data = <<>>

\* C22: the mask sigma_clip ends with leaves a finite sample unflagged
\* whenever the input holds one, so that the statistics are taken over a
\* non-empty set of samples
C22_SomeFiniteSampleSurvives ==
    (pc = "clip" /\ clip.pc = "done" /\ \E i \in DOMAIN clip.data : clip.data[i].k = "fin")
        => \E i \in DOMAIN clip.data : clip.data[i].k = "fin" /\ ~clip.mask[i]

\* C23: every sample that is not finite is flagged in the initial mask and in
\* the mask of every iteration, and the initial mask flags no finite sample
C23_NonFiniteAlwaysFlagged ==
    pc = "clip" =>
        /\ \A i \in DOMAIN clip.data : clip.data[i].k # "fin" => clip.mask[i]
        /\ (clip.pc = "loop" /\ clip.iter = 0) =>
               \A i \in DOMAIN clip.data : clip.data[i].k = "fin" => ~clip.mask[i]

-----------------------------------------------------------------------------
(***************************************************************************)
(* Local-minima extraction (find.py, local_minima_sliding_window and the   *)
(* np.argwhere(result) + 1 of find_stars).                                 *)
(*                                                                         *)
(* An edge map is a background with a 3x3 block around (r, c), clipped to  *)
(* the map, whose centre has a value of its own.  Rows and columns count   *)
(* from 0.                                                                 *)
(***************************************************************************)

MaxSide == 7

EdgeMap(ny, nx, bg, hi, mid, r, c) ==
    [ny |-> ny, nx |-> nx, bg |-> bg, hi |-> hi, mid |-> mid, r |-> r, c |-> c]

Sides == {3, 5, MaxSide}

EdgeMaps ==
    {EdgeMap(ny, nx, 0, hi, mid, r, c) :
        ny \in Sides, nx \in Sides, hi \in {0, 100}, mid \in {-5, 90, 99, 120},
        r \in {0, 1, 3}, c \in {0, 2, 3}}

\* The multipliers X of the threshold
Multipliers == {-1, 0, 1, 2}

\* data[i, j]
EdgeAt(e, i, j) ==
    IF i = e.r /\ j = e.c THEN e.mid
    ELSE IF Abs(i - e.r) <= 1 /\ Abs(j - e.c) <= 1 THEN e.hi
         ELSE e.bg

EdgePixels(e) == (0..(e.ny - 1)) \X (0..(e.nx - 1))

\* The sum of f over the values of the map, each with its multiplicity
RECURSIVE SumEdge(_, _, _)
SumEdge(e, values, square) ==
    IF values = {} THEN 0
    ELSE LET v == CHOOSE w \in values : TRUE
         IN (IF square THEN v * v ELSE v)
                * Cardinality({p \in EdgePixels(e) : EdgeAt(e, p[1], p[2]) = v})
            + SumEdge(e, values \ {v}, square)

\* n, the sum and the sum of squares of the map: np.mean(data) is sum / n and
\* np.std(data) is sqrt(n * squares - sum^2) / n
Moments(e) ==
    LET values == {EdgeAt(e, p[1], p[2]) : p \in EdgePixels(e)}
    IN [n |-> e.ny * e.nx, sum |-> SumEdge(e, values, FALSE), squares |-> SumEdge(e, values, TRUE)]

\* v > mean + X * sigma, on exact numbers
AboveThreshold(v, m, X) ==
    LET d == m.n * v - m.sum
        q == m.n * m.squares - m.sum * m.sum
    IN IF X >= 0 THEN d > 0 /\ d * d > X * X * q
       ELSE d >= 0 \/ d * d < X * X * q

\* mask = data > threshold, without the crop
mask_uncropped(e, m, X, i, j) == AboveThreshold(EdgeAt(e, i, j), m, X)

\* cropped_mask[i, j] = mask[1:-1, 1:-1][i, j]
cropped_mask(e, m, X, i, j) == AboveThreshold(EdgeAt(e, i + 1, j + 1), m, X)

\* windows[i, j] flattened: element k of the 3x3 window whose corner is (i, j)
w_flat(e, i, j, k) == EdgeAt(e, i + (k \div 3), j + (k % 3))

\* local_min[i, j]: the centre (element 4) is less than the 8 other elements
local_min(e, i, j) ==
    \A k \in (0..8) \ {4} : w_flat(e, i, j, 4) < w_flat(e, i, j, k)

\* The positions where result is True; result has the shape of the windows
local_minima_sliding_window(e, X) ==
    LET m == Only({Moments(d) : d \in {e}})
    IN {p \in (0..(e.ny - 3)) \X (0..(e.nx - 3)) :
            local_min(e, p[1], p[2]) /\ cropped_mask(e, m, X, p[1], p[2])}

\* minima_coords = np.argwhere(result) + 1
minima_coords_of(result) == {<<p[1] + 1, p[2] + 1>> : p \in result}

CallLocalMinima ==
    /\ pc = "minima"
    /\ finder.pc = "ready"
    /\ \E result \in {local_minima_sliding_window(finder.data, finder.X)} :
          finder' = [finder EXCEPT !.pc = "returned", !.result = result,
                                   !.minima_coords = minima_coords_of(result)]
    /\ UNCHANGED <<fitsVars, wcs, ret, clip, meas, batch>>

InitMinima ==
    /\ \E e \in EdgeMaps : \E X \in Multipliers :
          finder = [pc |-> "ready", data |-> e, X |-> X, result |-> {}, minima_coords |-> {}]
    /\ pc = "minima"
    /\ stream = "" /\ pos = 0 /\ closed = FALSE
    /\ header = EmptyHeader /\ history = <<>> /\ data = <<>>
    /\ err = NoError /\ reads = 0 /\ dataStart = -1
    /\ wcs = <<>> /\ ret = NoCall /\ clip = NoClip
    /\ meas = NoMeasure /\ batch = NoBatch

NextMinima == CallLocalMinima

SpecMinima == InitMinima /\ [][NextMinima]_vars

\* The pixel (r, c) is not on the 1-pixel border of the map
Interior(e, r, c) == 1 <= r /\ r <= e.ny - 2 /\ 1 <= c /\ c <= e.nx - 2

\* The value at (r, c) is less than the value of each of its 8 neighbours
BelowNeighbours(e, r, c) ==
    \A dr \in {-1, 0, 1} : \A dc \in {-1, 0, 1} :
        (dr # 0 \/ dc # 0) => EdgeAt(e, r, c) < EdgeAt(e, r + dr, c + dc)

\* C21: a pixel is among the returned coordinates exactly when it is interior,
\* its value is less than each of its 8 neighbours and its own value is above
\* mean + X * std of the whole map; the coordinates are window index + 1
C21_CandidateIffMinimumAboveThreshold ==
    (pc = "minima" /\ finder.pc = "returned") =>
        /\ \A p \in EdgePixels(finder.data) :
              p \in finder.minima_coords <=>
                 /\ Interior(finder.data, p[1], p[2])
                 /\ BelowNeighbours(finder.data, p[1], p[2])
                 /\ AboveThreshold(EdgeAt(finder.data, p[1], p[2]), Moments(finder.data), finder.X)
        /\ finder.minima_coords \subseteq EdgePixels(finder.data)
        /\ finder.minima_coords = {<<p[1] + 1, p[2] + 1>> : p \in finder.result}

C21_Witness ==
    /\ pc = "minima"
    /\ finder.pc = "returned"
    /\ finder.X = 2
    /\ finder.minima_coords = {<<3, 3>>}
    /\ finder.data.ny = 7

=============================================================================
